---- MODULE Spec2Model ----
(***************************************************************************)
(* Access log ledger: logger.py (first variant) and logger2.py (second     *)
(* variant with retention/sync).  Both programs work on the same file      *)
(* access_log.db, table access_log.  One operator, one thread of control;  *)
(* the handlers that block on input() or on the HTTP request are split at  *)
(* the blocking call, where the wall clock may advance.                    *)
(***************************************************************************)
EXTENDS Integers, Sequences, FiniteSets, TLC

\* ---------------------------------------------------------------- bounds
\* rows one table ever receives (sqlite_sequence is capped at this value)
MaxId == 2
\* days the clock runs on after the first row has reached the retention age
PastDays == 1

\* ------------------------------------------------------------- constants
\* timedelta(days=30) of get_records_older_than_30_days
RETENTION_DAYS == 30
\* response.status_code == 200
HTTP_OK == 200

\* SQL NULL / Python None in a column or variable that holds words
NULL == "NULL"
\* SQL NULL in exit_time, which otherwise holds the characters of a time
NULL_TIME == <<>>
\* a row of the table that has no synced column
NoColumn == -1
\* server_config.json does not exist
NoFile == [exists |-> FALSE, server_url |-> NULL, sync_enabled |-> FALSE]
NoFrame == "no frame"

\* DEFAULT_CONFIG
DEFAULT_SERVER_URL == "http://your-server.com/api/access-logs"
DEFAULT_CONFIG ==
  [exists |-> TRUE, server_url |-> DEFAULT_SERVER_URL, sync_enabled |-> FALSE]

\* ------------------------------------------------------- sampled inputs
Names == {"ann", "bob"}
\* answers typed at "Is <name> allowed to enter?", after strip().lower()
Answers == {"allowed", "denied", "yes"}
\* answers typed at "Enter reason for denial:", after strip()
Reasons == {"", "no badge"}
\* answers typed at "Do you want to proceed? (yes/no)", after strip().lower()
Confirms == {"yes", "no"}
\* values server_url can hold in server_config.json (NULL: key missing)
Urls == {DEFAULT_SERVER_URL, "https://archive.example/api", NULL}
\* menu options of configure_server with the answer typed after each
ConfigureInputs ==
  {<<"1", "https://archive.example/api">>, <<"1", DEFAULT_SERVER_URL>>,
   <<"1", "">>, <<"3", "yes">>, <<"3", "no">>, <<"4", "">>}
\* outcomes of requests.post: a status code, or a RequestException raised
PostOutcomes ==
  {[raised |-> FALSE, status_code |-> HTTP_OK],
   [raised |-> FALSE, status_code |-> 500],
   [raised |-> TRUE, status_code |-> 0]}
\* seconds of the day at which the clock is read (09:00:00 and 17:30:00)
Morning == 9 * 3600
Evening == 17 * 3600 + 30 * 60
TimeSamples == {Morning, Evening}
\* day ordinals (days since CalendarOrigin) at which the clock is read: the
\* day of installation, the day after, and the days from RETENTION_DAYS later
FirstDay == RETENTION_DAYS
MaxDay == FirstDay + RETENTION_DAYS + PastDays
FirstDays == {FirstDay, FirstDay + 1}
DaySamples == FirstDays \cup ((FirstDay + RETENTION_DAYS)..MaxDay)

\* --------------------------------------------------- calendar and strings
CalendarOrigin == <<2023, 11, 1>>

IsLeap(y) == (y % 4 = 0 /\ y % 100 # 0) \/ y % 400 = 0

DaysInMonth(y, m) ==
  IF m = 2 THEN (IF IsLeap(y) THEN 29 ELSE 28)
  ELSE IF m \in {4, 6, 9, 11} THEN 30 ELSE 31

\* days of year y before the first of month m
RECURSIVE DaysBeforeMonth(_, _)
DaysBeforeMonth(y, m) ==
  IF m = 1 THEN 0 ELSE DaysBeforeMonth(y, m - 1) + DaysInMonth(y, m - 1)

\* days before January 1st of year y
DaysBeforeYear(y) ==
  (y - 1) * 365 + (y - 1) \div 4 - (y - 1) \div 100 + (y - 1) \div 400

\* proleptic Gregorian ordinal of a date (datetime arithmetic)
Ordinal(dt) == DaysBeforeYear(dt[1]) + DaysBeforeMonth(dt[1], dt[2]) + dt[3]

CalendarDates ==
  {dt \in (2023..2025) \X (1..12) \X (1..31) :
     dt[3] <= DaysInMonth(dt[1], dt[2])}

\* the calendar date of a day ordinal counted from CalendarOrigin
DateOfDay(d) ==
  CHOOSE dt \in CalendarDates : Ordinal(dt) = Ordinal(CalendarOrigin) + d

Calendar == [d \in 0..(MaxDay + 1) |-> DateOfDay(d)]

\* characters are their ASCII codes
Digit(n) == 48 + n
Dash == 45
Colon == 58

TwoDigits(n) == <<Digit(n \div 10), Digit(n % 10)>>

\* strftime("%Y-%m-%d")
FormatDate(dt) ==
  <<Digit(dt[1] \div 1000), Digit((dt[1] \div 100) % 10),
    Digit((dt[1] \div 10) % 10), Digit(dt[1] % 10)>>
  \o <<Dash>> \o TwoDigits(dt[2]) \o <<Dash>> \o TwoDigits(dt[3])

\* strftime("%H:%M:%S")
FormatTime(s) ==
  TwoDigits(s \div 3600) \o <<Colon>> \o TwoDigits((s \div 60) % 60)
  \o <<Colon>> \o TwoDigits(s % 60)

\* SQLite's comparison of two TEXT values (BINARY collation)
RECURSIVE TextLess(_, _)
TextLess(a, b) ==
  IF b = <<>> THEN FALSE
  ELSE IF a = <<>> THEN TRUE
  ELSE IF Head(a) # Head(b) THEN Head(a) < Head(b)
  ELSE TextLess(Tail(a), Tail(b))

\* ------------------------------------------------------------------ state
VARIABLES
  store,        \* rows of table access_log in access_log.db
  seq,          \* sqlite_sequence entry of access_log (AUTOINCREMENT)
  config_file,  \* content of server_config.json, or NoFile
  day,          \* wall clock: day ordinal
  tod,          \* wall clock: second of the day
  prog,         \* program running: "none", "logger", "logger2"
  pc,           \* where the running program waits
  frame,        \* local variables of the handler that is blocked
  posts,        \* history: requests.post calls of the latest sync_and_cleanup
  last          \* history: the latest completed operation and its outcome

vars == <<store, seq, config_file, day, tod, prog, pc, frame, posts, last>>

\* get_today_date_str / get_time_str
get_today_date_str == FormatDate(Calendar[day])
get_time_str == FormatTime(tod)

Ids(rows) == {r.id : r \in rows}

\* no request was made
NoReply == [raised |-> FALSE, status_code |-> 0]

\* history record of an operation: what it was, the name it was given, the
\* row it wrote, the rows it deleted, what requests.post gave back, and (for
\* an exit) the row created by the entry that came right before it
Outcome(op, name, id, deleted) ==
  [op |-> op, name |-> name, id |-> id, deleted |-> deleted,
   reply |-> NoReply, follows |-> 0]

Init ==
  /\ store = {}
  /\ seq = 0
  /\ config_file = NoFile
  /\ day = FirstDay
  /\ tod = Morning
  /\ prog = "none"
  /\ pc = "menu"
  /\ frame = NoFrame
  /\ posts = 0
  /\ last = Outcome("none", NULL, 0, {})

\* ------------------------------------------------------------ environment
\* the wall clock moves forward to a later sampled instant
Tick(d, t) ==
  /\ d > day \/ (d = day /\ t > tod)
  /\ day' = d
  /\ tod' = t
  /\ UNCHANGED <<store, seq, config_file, prog, pc, frame, posts, last>>

\* the operator edits or removes server_config.json by hand
ConfigFiles ==
  {NoFile} \cup [exists : {TRUE}, server_url : Urls, sync_enabled : BOOLEAN]

EditConfigFile(c) ==
  /\ c # config_file
  /\ config_file' = c
  /\ UNCHANGED <<store, seq, day, tod, prog, pc, frame, posts, last>>

\* load_config: the value returned and the file it leaves behind
load_config == IF config_file.exists THEN config_file ELSE DEFAULT_CONFIG

\* ------------------------------------------------------- logger.py startup
\* logger.py init_db: DROP TABLE IF EXISTS, then CREATE TABLE (no synced)
StartLogger ==
  /\ prog = "none"
  /\ prog' = "logger"
  /\ store' = {}
  /\ seq' = 0
  /\ last' = Outcome("init_db", NULL, 0, {})
  /\ UNCHANGED <<config_file, day, tod, pc, frame, posts>>

\* logger2.py init_db: CREATE TABLE IF NOT EXISTS, add column synced when
\* it is missing; then load_config()
AddSyncedColumn(r) == [r EXCEPT !.synced = IF @ = NoColumn THEN 0 ELSE @]

StartLogger2 ==
  /\ prog = "none"
  /\ prog' = "logger2"
  /\ store' = {AddSyncedColumn(r) : r \in store}
  /\ config_file' = load_config
  /\ last' = Outcome("init_db", NULL, 0, {})
  /\ UNCHANGED <<seq, day, tod, pc, frame, posts>>

\* menu option Quit
Quit ==
  /\ prog # "none"
  /\ pc = "menu"
  /\ prog' = "none"
  /\ UNCHANGED <<store, seq, config_file, day, tod, pc, frame, posts, last>>

\* ------------------------------------------------------------ record_entry
\* record_entry up to the first input(): date and entry_time are read
RecordEntryBegin(name) ==
  /\ prog # "none"
  /\ pc = "menu"
  /\ seq < MaxId
  /\ pc' = "entry"
  /\ frame' = [name |-> name, date |-> get_today_date_str,
               entry_time |-> get_time_str]
  /\ UNCHANGED <<store, seq, config_file, day, tod, prog, posts, last>>

NewRow(id, name, date, entry_time, res, reason) ==
  [id |-> id, name |-> name, date |-> date, entry_time |-> entry_time,
   exit_time |-> NULL_TIME, result |-> res, reason |-> reason,
   synced |-> IF prog = "logger2" THEN 0 ELSE NoColumn]

\* record_entry from the answer to the INSERT
RecordEntryAnswer(res, typed_reason) ==
  /\ pc = "entry"
  /\ LET reason == IF res = "denied" THEN typed_reason ELSE NULL
         row == NewRow(seq + 1, frame.name, frame.date, frame.entry_time,
                       res, reason)
     IN /\ store' = store \cup {row}
        /\ seq' = seq + 1
        /\ last' = Outcome("entry", frame.name, seq + 1, {})
  /\ pc' = "menu"
  /\ frame' = NoFrame
  /\ UNCHANGED <<config_file, day, tod, prog, posts>>

\* ------------------------------------------------------------- record_exit
\* mutant: the SELECT without "AND result = 'allowed'"
ExitCandidates_AnyResult(rows, name, date) ==
  {r \in rows : /\ r.name = name
                /\ r.date = date
                /\ r.exit_time = NULL_TIME}

\* mutant: the SELECT without "AND (exit_time IS NULL)"
ExitCandidates_AnyExitTime(rows, name, date) ==
  {r \in rows : /\ r.name = name
                /\ r.date = date
                /\ r.result = "allowed"}

\* mutant: the SELECT without "AND date = ?"
ExitCandidates_AnyDate(rows, name, date) ==
  {r \in rows : /\ r.name = name
                /\ r.exit_time = NULL_TIME
                /\ r.result = "allowed"}

\* SELECT ... WHERE name = ? AND date = ? AND exit_time IS NULL
\*   AND result = 'allowed'
ExitCandidates(rows, name, date) ==
  {r \in rows : /\ r.name = name
                /\ r.date = date
                /\ r.exit_time = NULL_TIME
                /\ r.result = "allowed"}

\* mutant: ORDER BY id ASC LIMIT 1
LatestRow_Oldest(rows) == CHOOSE r \in rows : \A o \in rows : o.id >= r.id

\* ORDER BY id DESC LIMIT 1
LatestRow(rows) == CHOOSE r \in rows : \A o \in rows : o.id <= r.id

\* mutant: UPDATE ... WHERE name = (the name of row id)
SetExitTime_ByName(rows, id, exit_time) ==
  {IF \E t \in rows : t.id = id /\ t.name = r.name
   THEN [r EXCEPT !.exit_time = exit_time] ELSE r : r \in rows}

\* UPDATE access_log SET exit_time = ? WHERE id = ?
SetExitTime(rows, id, exit_time) ==
  {IF r.id = id THEN [r EXCEPT !.exit_time = exit_time] ELSE r : r \in rows}

record_exit(name) ==
  /\ prog # "none"
  /\ pc = "menu"
  /\ LET cand == ExitCandidates(store, name, get_today_date_str)
     IN IF cand = {}
        THEN /\ store' = store
             /\ last' = Outcome("exit_not_found", name, 0, {})
        ELSE /\ store' = SetExitTime(store, LatestRow(cand).id, get_time_str)
             /\ last' = [Outcome("exit", name, LatestRow(cand).id, {})
                         EXCEPT !.follows =
                           IF last.op = "entry" /\ last.name = name
                           THEN last.id ELSE 0]
  /\ UNCHANGED <<seq, config_file, day, tod, prog, pc, frame, posts>>

\* --------------------------------------------------------------- queries
\* show_logs / show_custom_date_logs / show_today: SELECT and print only
show_logs ==
  /\ prog # "none"
  /\ pc = "menu"
  /\ UNCHANGED vars

\* ------------------------------------------------------- retention and sync
\* the cutoff of get_records_older_than_30_days
thirty_days_ago == FormatDate(Calendar[day - RETENTION_DAYS])

\* mutant: WHERE date <= ?
OlderThan_Inclusive(rows, cutoff) == {r \in rows : ~TextLess(cutoff, r.date)}

\* SELECT ... WHERE date < ?
OlderThan(rows, cutoff) == {r \in rows : TextLess(r.date, cutoff)}

\* ORDER BY date, entry_time (rows that tie come in rowid order)
RowBefore(a, b) ==
  \/ TextLess(a.date, b.date)
  \/ a.date = b.date /\ TextLess(a.entry_time, b.entry_time)
  \/ a.date = b.date /\ a.entry_time = b.entry_time /\ a.id < b.id

RECURSIVE OrderRows(_)
OrderRows(rows) ==
  IF rows = {} THEN <<>>
  ELSE LET first == CHOOSE r \in rows :
                      \A o \in rows \ {r} : RowBefore(r, o)
       IN <<first>> \o OrderRows(rows \ {first})

\* the dictionary built for one selected row
RowDict(r) ==
  [id |-> r.id, name |-> r.name, date |-> r.date,
   entry_time |-> r.entry_time, exit_time |-> r.exit_time,
   result |-> r.result, reason |-> r.reason]

get_records_older_than_30_days ==
  LET rows == OrderRows(OlderThan(store, thirty_days_ago))
  IN [i \in 1..Len(rows) |-> RowDict(rows[i])]

\* record_ids = [r["id"] for r in old_records]
RecordIds(records) == {records[i].id : i \in 1..Len(records)}

\* DELETE FROM access_log WHERE id IN (...)
delete_old_records(rows, record_ids) == {r \in rows : r.id \notin record_ids}

\* mutant: send_to_server without the check of server_url
SendDecision_NoUrlCheck(config) ==
  IF ~config.sync_enabled THEN "disabled" ELSE "post"

\* send_to_server before the request: "disabled", "no url", or "post"
SendDecision(config) ==
  IF ~config.sync_enabled THEN "disabled"
  ELSE IF config.server_url = NULL \/ config.server_url = DEFAULT_SERVER_URL
       THEN "no url"
       ELSE "post"

\* mutant: every response that is not an exception counts as success
PostSucceeded_AnyResponse(outcome) == ~outcome.raised

\* send_to_server after the request: its return value
PostSucceeded(outcome) == ~outcome.raised /\ outcome.status_code = HTTP_OK

\* sync_and_cleanup up to the confirmation prompt
SyncSelect ==
  /\ prog = "logger2"
  /\ pc = "menu"
  /\ config_file' = load_config
  /\ posts' = 0
  /\ LET old_records == get_records_older_than_30_days
     IN IF old_records = <<>>
        THEN /\ last' = Outcome("sync_nothing", NULL, 0, {})
             /\ UNCHANGED <<pc, frame>>
        ELSE /\ pc' = "confirm"
             /\ frame' = [config |-> load_config, old_records |-> old_records]
             /\ UNCHANGED last
  /\ UNCHANGED <<store, seq, day, tod, prog>>

\* sync_and_cleanup from the operator's answer to the request being sent
SyncConfirm(confirm) ==
  /\ pc = "confirm"
  /\ IF confirm # "yes"
     THEN /\ pc' = "menu"
          /\ frame' = NoFrame
          /\ last' = Outcome("sync_cancelled", NULL, 0, {})
          /\ UNCHANGED posts
     ELSE IF SendDecision(frame.config) = "post"
     THEN /\ pc' = "post"
          /\ posts' = posts + 1
          /\ UNCHANGED <<frame, last>>
     ELSE /\ pc' = "menu"
          /\ frame' = NoFrame
          /\ last' = Outcome(IF SendDecision(frame.config) = "disabled"
                             THEN "sync_disabled" ELSE "sync_no_url",
                             NULL, 0, {})
          /\ UNCHANGED posts
  /\ UNCHANGED <<store, seq, config_file, day, tod, prog>>

\* sync_and_cleanup from the end of requests.post to its return
SyncResponse(outcome) ==
  /\ pc = "post"
  /\ IF PostSucceeded(outcome)
     THEN /\ store' = delete_old_records(store, RecordIds(frame.old_records))
          /\ last' = [Outcome("sync_done", NULL, 0,
                              store \ delete_old_records(store,
                                         RecordIds(frame.old_records)))
                      EXCEPT !.reply = outcome]
     ELSE /\ store' = store
          /\ last' = [Outcome("sync_failed", NULL, 0, {})
                      EXCEPT !.reply = outcome]
  /\ pc' = "menu"
  /\ frame' = NoFrame
  /\ UNCHANGED <<seq, config_file, day, tod, prog, posts>>

\* show_sync_status: load_config and the same SELECT, printed
show_sync_status ==
  /\ prog = "logger2"
  /\ pc = "menu"
  /\ config_file' = load_config
  /\ UNCHANGED <<store, seq, day, tod, prog, pc, frame, posts, last>>

\* configure_server: the option chosen and the answer typed after it
\* (option 2 stores the API key, which only travels in the request header)
configure_server(choice, typed) ==
  /\ prog = "logger2"
  /\ pc = "menu"
  /\ config_file' =
       IF choice = "1" /\ typed # ""
       THEN [load_config EXCEPT !.server_url = typed]
       ELSE IF choice = "3"
       THEN [load_config EXCEPT !.sync_enabled = (typed = "yes")]
       ELSE load_config
  /\ UNCHANGED <<store, seq, day, tod, prog, pc, frame, posts, last>>

\* ---------------------------------------------------------- specifications
\* both programs, every operation; one visitor, one clock reading a day
Next ==
  \/ \E d \in DaySamples : Tick(d, Morning)
  \/ \E c \in ConfigFiles : EditConfigFile(c)
  \/ StartLogger
  \/ StartLogger2
  \/ Quit
  \/ RecordEntryBegin("ann")
  \/ \E a \in {"allowed", "denied"} : RecordEntryAnswer(a, "no badge")
  \/ record_exit("ann")
  \/ show_logs
  \/ SyncSelect
  \/ \E c \in Confirms : SyncConfirm(c)
  \/ \E o \in PostOutcomes : SyncResponse(o)
  \/ show_sync_status
  \/ \E i \in ConfigureInputs : configure_server(i[1], i[2])

Spec == Init /\ [][Next]_vars

\* the entry and exit operations of both programs, with every sampled input,
\* over the days around the installation
NextLifecycle ==
  \/ \E d \in FirstDays, t \in TimeSamples : Tick(d, t)
  \/ StartLogger
  \/ StartLogger2
  \/ Quit
  \/ \E n \in Names : RecordEntryBegin(n)
  \/ \E a \in Answers, t \in Reasons : RecordEntryAnswer(a, t)
  \/ \E n \in Names : record_exit(n)

SpecLifecycle == Init /\ [][NextLifecycle]_vars

\* ------------------------------------------------------------------ claims
\* what the claims mean by their words, stated without the code's operators
IsNull(t) == t = NULL_TIME

\* the day ordinal a stored date text stands for (the text parsed back)
TextOfDay == [d \in 0..(MaxDay + 1) |-> FormatDate(Calendar[d])]

DayOfText(text) == CHOOSE d \in 0..(MaxDay + 1) : TextOfDay[d] = text

\* rows of the given name that are dated with the clock's day, allowed, open
OpenToday(rows, name) ==
  {r \in rows : /\ r.name = name
                /\ DayOfText(r.date) = day
                /\ r.result = "allowed"
                /\ IsNull(r.exit_time)}

RowOf(rows, id) == CHOOSE r \in rows : r.id = id

\* C4: in every reachable state, every record with a non-null exit_time has
\* result = allowed
C4_ExitOnlyOnAllowed ==
  \A r \in store : ~IsNull(r.exit_time) => r.result = "allowed"

\* C4 witness: an exit was asked for a name whose record of today is denied,
\* and it closed nothing
C4_Witness ==
  /\ last.op = "exit_not_found"
  /\ \E r \in store : /\ r.name = last.name
                       /\ r.result = "denied"
                       /\ DayOfText(r.date) = day
                       /\ IsNull(r.exit_time)

\* C5: record_exit(name) changes at most one record: with open allowed
\* records of that name dated today it sets exit_time on the one with the
\* largest id and leaves every other record as it was; with none it reports
\* not-found and leaves the store unchanged
C5_ExitClosesLatestOnly ==
  [][\A n \in Names :
       record_exit(n) =>
         IF OpenToday(store, n) = {}
         THEN store' = store /\ last'.op = "exit_not_found"
         ELSE \E t \in OpenToday(store, n) :
                /\ \A o \in OpenToday(store, n) : o.id <= t.id
                /\ ~IsNull(RowOf(store', t.id).exit_time)
                /\ store' \ {RowOf(store', t.id)} = store \ {t}
                /\ RowOf(store', t.id) =
                     [t EXCEPT !.exit_time = RowOf(store', t.id).exit_time]
                /\ last'.op = "exit" /\ last'.id = t.id]_vars

\* C5 witness: an exit closed a record while an older record of the same
\* name and day stays open
C5_Witness ==
  /\ last.op = "exit"
  /\ \E r \in store : /\ r.name = last.name
                       /\ r.id < last.id
                       /\ r.date = RowOf(store, last.id).date
                       /\ r.result = "allowed"
                       /\ IsNull(r.exit_time)

\* C7: a record's id, name, date, entry_time, result and reason never change
\* while it is stored, and an exit_time that is set never changes again
C7_WriteOnce ==
  [][\A r \in store : \A w \in store' :
       w.id = r.id =>
         /\ w.name = r.name
         /\ w.date = r.date
         /\ w.entry_time = r.entry_time
         /\ w.result = r.result
         /\ w.reason = r.reason
         /\ (~IsNull(r.exit_time) => w.exit_time = r.exit_time)]_vars

\* C7 witness: a second exit was asked, at a later time of the same day, for
\* a name whose record is already closed; it closed nothing
C7_Witness ==
  /\ last.op = "exit_not_found"
  /\ \E r \in store : /\ r.name = last.name
                       /\ DayOfText(r.date) = day
                       /\ ~IsNull(r.exit_time)
                       /\ TextLess(r.exit_time, get_time_str)

\* C8: every record that record_entry creates has result in {allowed,
\* denied} and a reason that is present and non-empty exactly when the
\* result is denied
C8_RowsAreValid ==
  \A r \in store :
    /\ r.result \in {"allowed", "denied"}
    /\ (r.result = "denied") <=> (r.reason # NULL /\ r.reason # "")

\* the exit that comes right after the entry of an allowed visitor n, on the
\* day the new record is dated
ExitRightAfterEntry(n) ==
  /\ record_exit(n)
  /\ last.op = "entry"
  /\ last.name = n
  /\ RowOf(store, last.id).result = "allowed"
  /\ DayOfText(RowOf(store, last.id).date) = day

ClosedToday(rows, name) ==
  {r \in rows : /\ r.name = name
                /\ DayOfText(r.date) = day
                /\ ~IsNull(r.exit_time)}

\* C6 as stated: after record_entry(name, allowed) and then record_exit(name)
\* on the same day, exactly one record of that name and day has exit_time
\* set, and no record other than the new one was changed
C6_ExactlyOneClosed ==
  [][\A n \in Names :
       ExitRightAfterEntry(n) =>
         /\ Cardinality(ClosedToday(store', n)) = 1
         /\ store' \ {RowOf(store', last.id)} = store \ {RowOf(store, last.id)}]_vars

\* C6 amended: after record_entry(name, allowed) and then record_exit(name)
\* on the same day, the exit sets exit_time on the new record and changes no
\* other record, so the records of that name and day with exit_time set are
\* one more than before (exactly one when none was closed before)
C6_ClosesTheNewRecord ==
  [][\A n \in Names :
       ExitRightAfterEntry(n) =>
         /\ ~IsNull(RowOf(store', last.id).exit_time)
         /\ IsNull(RowOf(store, last.id).exit_time)
         /\ store' \ {RowOf(store', last.id)} = store \ {RowOf(store, last.id)}
         /\ Cardinality(ClosedToday(store', n)) =
              Cardinality(ClosedToday(store, n)) + 1]_vars

\* C6 witness: an exit closed the record that the entry right before it
\* created, and an earlier record of that name and day is closed as well
C6_Witness ==
  /\ last.op = "exit"
  /\ last.follows = last.id
  /\ \E r \in store : /\ r.id # last.id
                       /\ r.name = last.name
                       /\ r.date = RowOf(store, last.id).date
                       /\ ~IsNull(r.exit_time)

\* the remote archive reported success
RemoteConfirmed(reply) == ~reply.raised /\ reply.status_code = HTTP_OK

\* the step in which sync_and_cleanup returns from the request
SyncReturns == pc = "post" /\ pc' = "menu"

\* rows strictly older than RETENTION_DAYS days on the clock's day
Stale(rows) == {r \in rows : DayOfText(r.date) < day - RETENTION_DAYS}

\* C1: sync_and_cleanup deletes records if and only if the remote call
\* reported success for the batch it selected, and then exactly the ids of
\* that batch; otherwise the stored records stay as they were before the call
C1_AllOrNothing ==
  [][/\ SyncSelect => store' = store
     /\ (pc \in {"confirm", "post"} /\ ~SyncReturns) => store' = store
     /\ SyncReturns =>
          IF RemoteConfirmed(last'.reply)
          THEN /\ Ids(store) \ Ids(store') = RecordIds(frame.old_records)
               /\ Ids(store) \ Ids(store') # {}
               /\ store' \subseteq store
          ELSE store' = store]_vars

\* C1 witness: a sync that the remote confirmed deleted its batch and left
\* other records stored
C1_Witness ==
  /\ last.op = "sync_done"
  /\ RemoteConfirmed(last.reply)
  /\ last.deleted # {}
  /\ store # {}

C3_OnlyPurgeRemoves ==
  [][Ids(store) \ Ids(store') # {} =>
       /\ SyncReturns
       /\ RemoteConfirmed(last'.reply)
       /\ Ids(store) \ Ids(store') \subseteq Ids(Stale(store))]_vars

\* the configuration sync_and_cleanup loaded does not allow a request
NotConfigured(config) ==
  \/ ~config.sync_enabled
  \/ config.server_url = NULL
  \/ config.server_url = DEFAULT_SERVER_URL

\* C9: during sync_and_cleanup the remote endpoint is contacted at most
\* once, and not at all when the stale set is empty, the confirmation is
\* not "yes", sync_enabled is false, or the endpoint is unset or the
\* default; in each of those cases the call ends with the store unchanged
C9_AtMostOneRequest ==
  [][/\ posts' <= 1
     /\ SyncSelect =>
          /\ posts' = 0
          /\ store' = store
          /\ Stale(store) = {} => pc' = "menu"
     /\ \A c \in Confirms :
          SyncConfirm(c) =>
            /\ store' = store
            /\ (c # "yes" \/ NotConfigured(frame.config)) =>
                  posts' = 0 /\ pc' = "menu"
     /\ pc = "post" => posts' = posts]_vars

\* C9 witness: a confirmed sync with sync enabled and no server_url ended
\* without a request
C9_Witness ==
  /\ last.op = "sync_no_url"
  /\ posts = 0
  /\ store # {}
  /\ config_file.exists
  /\ config_file.sync_enabled
  /\ config_file.server_url = NULL

\* C10: once the clock's date is past the date of an allowed record whose
\* exit_time is null, no operation sets that exit_time: it is null for as
\* long as the record is stored
C10_PastRecordStaysOpen ==
  [][\A r \in store :
       (r.result = "allowed" /\ IsNull(r.exit_time) /\ DayOfText(r.date) < day)
         => \A w \in store' : w.id = r.id => IsNull(w.exit_time)]_vars

\* C10 witness: a sync archived and deleted an allowed record whose
\* exit_time was still null
C10_Witness ==
  /\ last.op = "sync_done"
  /\ \E r \in last.deleted : r.result = "allowed" /\ IsNull(r.exit_time)
====
